---------------------------- MODULE Spec2Model ----------------------------
(* A model of sgpt/utils.py: the response sanitizer, the command filter   *)
(* and executor, the editor-based prompt capture, the eager-option        *)
(* decorator and the shell-integration installer.                         *)
(*                                                                        *)
(* A Python string is a sequence of chunks.  A chunk is a piece of text   *)
(* that the code treats as a unit: a tag, a fence, a separator, a         *)
(* whitespace character or a run of word characters.  Concatenating the   *)
(* chunks gives the string; two adjacent word chunks form one word.       *)
EXTENDS Naturals, Sequences, FiniteSets

VARIABLES
    command,     \* the text handed to sanitize_command / run_command
    platform,    \* platform.system()
    pcS,         \* text stage: position
    kept,        \* text stage: the indices of command that sanitize_command keeps
    sanitized,   \* text stage: sanitize_command(command)
    extracted,   \* text stage: command after the code-block extraction
    pcR,         \* run_command: position
    commands,    \* run_command: command.split('\n')
    idx,         \* run_command: index of the loop over commands
    filtered,    \* run_command: filtered_commands
    probes,      \* run_command: the `which` probes made, in order
    warnings,    \* run_command: "Command not found" messages on stderr
    errors,      \* run_command: "No valid commands to execute" messages on stderr
    shellCalls,  \* run_command: the os.system(full_command) calls made
    pcE,         \* get_edited_prompt: position
    fs,          \* the temp directory: file name -> content, or Absent
    fs0,         \* the temp directory before the call
    file_path,   \* get_edited_prompt: the temp file's name
    editorRun,   \* get_edited_prompt: the editor commands run
    output,      \* get_edited_prompt: the content read back
    stepsE,      \* get_edited_prompt: the steps taken, in order
    pcW,         \* option_callback wrapper: position
    func,        \* the wrapped callback
    value,       \* the flag's value
    envSHELL,    \* $SHELL of the process
    zshrc,       \* ~/.zshrc
    bashrc,      \* ~/.bashrc
    zshrc0,      \* ~/.zshrc before the first invocation
    bashrc0,     \* ~/.bashrc before the first invocation
    zshrcPre,    \* ~/.zshrc when the current invocation began
    bashrcPre,   \* ~/.bashrc when the current invocation began
    echoed,      \* typer.echo output of the current invocation
    traceW,      \* wrapper events of the current invocation
    invocations, \* processes started so far
    zshDone,     \* invocations that installed for zsh and exited
    bashDone     \* invocations that installed for bash and exited

sanVars == <<pcS, kept, sanitized, extracted>>
runVars == <<pcR, commands, idx, filtered, probes, warnings, errors, shellCalls>>
editVars == <<pcE, fs, fs0, file_path, editorRun, output, stepsE>>
optVars == <<pcW, func, value, envSHELL, zshrc, bashrc, zshrc0, bashrc0,
             zshrcPre, bashrcPre, echoed, traceW, invocations, zshDone, bashDone>>
vars == <<command, platform, sanVars, runVars, editVars, optVars>>

--------------------------------------------------------------------------
(* Bounds *)

MaxTextLen == 6

MaxCommandLen == 5

MaxTmpNames == 2

MaxPromptLen == 2

MaxInvocations == 3

MaxModulePaths == 4

--------------------------------------------------------------------------
(* Chunks *)

ThinkOpen == "<think>"

ThinkClose == "</think>"

\* The chunk for a code fence, three backticks.
Fence == "<fence>"

BashTag == "bash"

Newline == "\n"

Space == " "

Pipe == "|"

IsSpace(t) == t \in {Space, Newline}

SeqsUpTo(S, n) == UNION {[1..k -> S] : k \in 0..n}

Range(s) == {s[i] : i \in 1..Len(s)}

Min(S) == CHOOSE x \in S : \A y \in S : x <= y

Max(S) == CHOOSE x \in S : \A y \in S : x >= y

Pick(s, is) == [k \in 1..Len(is) |-> s[is[k]]]

Contains(s, t) == \E i \in 1..Len(s) : s[i] = t

--------------------------------------------------------------------------
(* sanitize_command *)

\* The pattern without re.DOTALL: the dot does not match a newline.
ThinkMatchEnd_NoDotAll(s, i) ==
    IF s[i] = ThinkOpen /\ \E j \in (i+1)..Len(s) : s[j] = ThinkClose
    THEN LET j == Min({j \in (i+1)..Len(s) : s[j] = ThinkClose})
         IN  IF \E k \in i..j : s[k] = Newline THEN 0 ELSE j
    ELSE 0

\* The end of the match of <think>.*?</think> (DOTALL) starting at i, or 0.
ThinkMatchEnd(s, i) ==
    IF s[i] = ThinkOpen /\ \E j \in (i+1)..Len(s) : s[j] = ThinkClose
    THEN Min({j \in (i+1)..Len(s) : s[j] = ThinkClose})
    ELSE 0

\* re.sub(r'<think>.*?</think>', '', s): the indices of s that survive, scanning
\* from i: every non-overlapping match, leftmost first, is removed.
RECURSIVE ThinkSubFrom(_, _)
ThinkSubFrom(s, i) ==
    IF i > Len(s) THEN <<>>
    ELSE LET e == ThinkMatchEnd(s, i)
         IN  IF e > 0 THEN ThinkSubFrom(s, e + 1)
             ELSE <<i>> \o ThinkSubFrom(s, i + 1)

ThinkSubKept(s) == ThinkSubFrom(s, 1)

\* str.strip() on the chunks of s at the indices is: the indices left.
StripKept(s, is) ==
    LET solid == {k \in 1..Len(is) : ~IsSpace(s[is[k]])}
    IN  IF solid = {} THEN <<>> ELSE SubSeq(is, Min(solid), Max(solid))

Strip(s) == Pick(s, StripKept(s, [k \in 1..Len(s) |-> k]))

sanitize_kept(s) == StripKept(s, ThinkSubKept(s))

sanitize_command(s) == Pick(s, sanitize_kept(s))

--------------------------------------------------------------------------
(* The code-block extraction of run_command *)

\* The opening fences from which the code-block pattern can match: a
\* fence with another fence after it.
FenceStarts(s) ==
    {i \in 1..Len(s) : s[i] = Fence /\ \E j \in (i+1)..Len(s) : s[j] = Fence}

\* group(1) of the leftmost match: after the fence, an optional "bash",
\* then whitespace, are skipped; the group runs lazily up to the whitespace
\* before the next fence.
CodeBlockGroup(s) ==
    LET i == Min(FenceStarts(s))
        q == IF s[i+1] = BashTag THEN i + 2 ELSE i + 1
        r == Min({k \in q..Len(s) : ~IsSpace(s[k])})
        f == Min({k \in r..Len(s) : s[k] = Fence})
        solid == {k \in r..(f-1) : ~IsSpace(s[k])}
    IN  IF solid = {} THEN <<>> ELSE SubSeq(s, r, Max(solid))

\* Lines 54-56: the command after the extraction.
ExtractCodeBlock(s) ==
    IF FenceStarts(s) # {} THEN CodeBlockGroup(s) ELSE s

\* Lines 51-56: the text that run_command goes on to split.
CommandText(s) == ExtractCodeBlock(sanitize_command(s))


--------------------------------------------------------------------------
(* The environment *)

\* An environment variable: set to a string, or not set.
EnvSet(v) == [set |-> TRUE, val |-> v]

EnvUnset == [set |-> FALSE, val |-> <<>>]

\* os.environ.get(name, default)
EnvGet(e, default) == IF e.set THEN e.val ELSE default

ShellEnvValues ==
    {EnvUnset, EnvSet(<<>>), EnvSet(<<"/bin/", "zsh">>), EnvSet(<<"/bin/", "bash">>),
     EnvSet(<<"/bin/", "fish">>), EnvSet(<<"/home/", "zsh", "/bin/", "bash">>)}

Platforms == {"Linux", "Windows"}

--------------------------------------------------------------------------
(* Idle values: a specification of one function leaves the others' state alone *)

SanIdle ==
    /\ pcS = "off" /\ kept = <<>> /\ sanitized = <<>> /\ extracted = <<>>

RunIdle ==
    /\ pcR = "off" /\ commands = <<>> /\ idx = 0 /\ filtered = <<>>
    /\ probes = <<>> /\ warnings = <<>> /\ errors = <<>> /\ shellCalls = <<>>

EditIdle ==
    /\ pcE = "off" /\ fs = <<>> /\ fs0 = <<>> /\ file_path = 0
    /\ editorRun = <<>> /\ output = <<>> /\ stepsE = <<>>

OptIdle ==
    /\ pcW = "off" /\ func = "" /\ value = "" /\ envSHELL = EnvUnset
    /\ zshrc = <<>> /\ bashrc = <<>> /\ zshrc0 = <<>> /\ bashrc0 = <<>>
    /\ zshrcPre = <<>> /\ bashrcPre = <<>> /\ echoed = <<>> /\ traceW = <<>>
    /\ invocations = 0 /\ zshDone = 0 /\ bashDone = 0

--------------------------------------------------------------------------
(* The text stage: sanitize_command, then the code-block extraction *)

SanAlphabet == {ThinkOpen, ThinkClose, Fence, BashTag, "sh", Newline}

InitSanitize ==
    /\ command \in SeqsUpTo(SanAlphabet, MaxTextLen)
    /\ platform = "Linux"
    /\ pcS = "start" /\ kept = <<>> /\ sanitized = <<>> /\ extracted = <<>>
    /\ RunIdle /\ EditIdle /\ OptIdle

\* Line 51: command = sanitize_command(command)
Sanitize ==
    /\ pcS = "start"
    /\ kept' = sanitize_kept(command)
    /\ sanitized' = sanitize_command(command)
    /\ pcS' = "sanitized"
    /\ UNCHANGED <<command, platform, extracted, runVars, editVars, optVars>>

\* Lines 54-56: the code block, when there is one, replaces the command
ExtractBlock ==
    /\ pcS = "sanitized"
    /\ extracted' = ExtractCodeBlock(sanitized)
    /\ pcS' = "extracted"
    /\ UNCHANGED <<command, platform, kept, sanitized, runVars, editVars, optVars>>

NextSanitize == Sanitize \/ ExtractBlock

SpecSanitize == InitSanitize /\ [][NextSanitize]_vars

(* Claims about the text stage *)

\* The close of the think span that opens at i: the first </think> after it, or 0.
SpanClose(s, i) ==
    IF s[i] = "<think>" /\ \E j \in (i+1)..Len(s) : s[j] = "</think>"
    THEN Min({j \in (i+1)..Len(s) : s[j] = "</think>"})
    ELSE 0

\* The positions of s inside a think span, tags included.
InThinkSpan(s) ==
    {k \in 1..Len(s) : \E i \in 1..k : SpanClose(s, i) >= k}

\* C2: after sanitize_command, no position of the input that lies inside a
\* <think>...</think> span (wherever the span is, however long, over several
\* lines, however many spans) is part of the output; the output is made of
\* kept input positions only, in order, and holds no think span of its own.
C2_ThinkContentRemoved ==
    pcS # "start" =>
        /\ Range(kept) \cap InThinkSpan(command) = {}
        /\ \A a, b \in 1..Len(kept) : a < b => kept[a] < kept[b]
        /\ sanitized = [k \in 1..Len(kept) |-> command[kept[k]]]
        /\ InThinkSpan(sanitized) = {}

\* C2's case: a span over two lines in the middle of the text, text kept on both sides.
C2_Witness ==
    /\ pcS = "sanitized"
    /\ \E i \in 2..Len(command) :
          /\ SpanClose(command, i) > i + 1
          /\ SpanClose(command, i) < Len(command)
          /\ \E k \in i..SpanClose(command, i) : command[k] = "\n"
    /\ Len(sanitized) >= 2
    /\ Range(sanitized) \subseteq {"sh", "bash"}

\* A fenced block in block form: the opening fence, an optional language tag
\* (a word, the rest of the fence's line), a newline, the content, the closing
\* fence.
OpenFence(s) == Min({i \in 1..Len(s) : s[i] = "<fence>"})

TagEnd(s) == Min({n \in (OpenFence(s)+1)..Len(s) : s[n] \in {"\n", " ", "<fence>"}})

CloseFence(s) == Min({f \in (OpenFence(s)+1)..Len(s) : s[f] = "<fence>"})

BlockForm(s) ==
    /\ Cardinality({i \in 1..Len(s) : s[i] = "<fence>"}) >= 2
    /\ s[TagEnd(s)] = "\n"
    /\ \A k \in (OpenFence(s)+1)..(TagEnd(s)-1) : s[k] \in {"bash", "sh"}

\* The content of the block, trimmed.
TrimmedInner(s) ==
    LET solid == {k \in (TagEnd(s)+1)..(CloseFence(s)-1) : s[k] \notin {"\n", " "}}
    IN  IF solid = {} THEN <<>> ELSE SubSeq(s, Min(solid), Max(solid))

\* C3: given text with a fenced code block (after the think blocks are removed),
\* the command text that run_command splits is the trimmed inner content of the
\* fence: no prose outside, no fence marker, no language tag.
C3_FenceInnerOnly ==
    (pcS = "extracted" /\ BlockForm(sanitized)) => extracted = TrimmedInner(sanitized)

--------------------------------------------------------------------------
(* run_command *)

\* str.split(sep): the pieces of s between the occurrences of the chunk sep
RECURSIVE Split(_, _)
Split(s, sep) ==
    IF ~Contains(s, sep) THEN <<s>>
    ELSE LET i == Min({k \in 1..Len(s) : s[k] = sep})
         IN  <<SubSeq(s, 1, i - 1)>> \o Split(SubSeq(s, i + 1, Len(s)), sep)

\* str.split(): the words of s, the maximal runs of chunks that are not whitespace
RECURSIVE Words(_)
Words(s) ==
    IF s = <<>> THEN <<>>
    ELSE IF IsSpace(Head(s)) THEN Words(Tail(s))
    ELSE LET stops == {k \in 1..Len(s) : IsSpace(s[k])}
             e == IF stops = {} THEN Len(s) ELSE Min(stops) - 1
         IN  <<SubSeq(s, 1, e)>> \o Words(SubSeq(s, e + 1, Len(s)))

\* sep.join(parts)
RECURSIVE Join(_, _)
Join(parts, sep) ==
    IF parts = <<>> THEN <<>>
    ELSE IF Len(parts) = 1 THEN parts[1]
    ELSE parts[1] \o <<sep>> \o Join(Tail(parts), sep)

\* Line 64: not cmd.strip()
IsBlankLine(cmd) == Strip(cmd) = <<>>

\* Line 68: cmd.split('|')[0].strip().split()
BaseWords(cmd) == Words(Strip(Split(cmd, Pipe)[1]))

\* Line 68: the subscript [0] raises IndexError on an empty list
HasBase(cmd) == BaseWords(cmd) # <<>>

base_cmd(cmd) == BaseWords(cmd)[1]

\* Line 74 with the command put first: filtered_commands.insert(0, cmd)
AppendCommand_First(fc, cmd) == <<cmd>> \o fc

\* Lines 74 and 79: filtered_commands.append(cmd)
AppendCommand(fc, cmd) == Append(fc, cmd)

\* Line 87: at least this many entries in PSModulePath mean PowerShell
PowershellMinPaths == 3

\* Lines 86-95: full_command.  shlex.quote makes the joined commands one
\* argument, so the shell gets them as they are.
FullCommand(plat, shellEnv, modulePaths, fc) ==
    IF plat = "Windows"
    THEN IF modulePaths >= PowershellMinPaths
         THEN [prog |-> <<"powershell.exe">>, flag |-> "-Command", script |-> Join(fc, "; ")]
         ELSE [prog |-> <<"cmd.exe">>, flag |-> "/c", script |-> Join(fc, " && ")]
    ELSE [prog |-> EnvGet(shellEnv, <<"/bin/sh">>), flag |-> "-c", script |-> Join(fc, "; ")]

RunAlphabet == {"ls", "sh", Space, Pipe, Newline}

\* The exit statuses os.system reports for `which`: found, not found
WhichStatuses == {0, 256}

InitRun ==
    /\ command \in SeqsUpTo(RunAlphabet, MaxCommandLen)
    /\ platform \in Platforms
    /\ pcR = "start" /\ commands = <<>> /\ idx = 0 /\ filtered = <<>>
    /\ probes = <<>> /\ warnings = <<>> /\ errors = <<>> /\ shellCalls = <<>>
    /\ SanIdle /\ EditIdle /\ OptIdle

notRun == <<command, platform, sanVars, editVars, optVars>>

\* Lines 51-60: sanitize, extract the code block, split into lines
RunSplit ==
    /\ pcR = "start"
    /\ commands' = Split(CommandText(command), Newline)
    /\ idx' = 1
    /\ filtered' = <<>>
    /\ pcR' = "loop"
    /\ UNCHANGED <<probes, warnings, errors, shellCalls, notRun>>

InLoop == pcR = "loop" /\ idx <= Len(commands)

\* Lines 64-65: an empty line is skipped
RunSkipBlank ==
    /\ InLoop
    /\ IsBlankLine(commands[idx])
    /\ idx' = idx + 1
    /\ UNCHANGED <<pcR, commands, filtered, probes, warnings, errors, shellCalls, notRun>>

\* Line 68: no word before the first pipe: [0] raises IndexError
RunNoBase ==
    /\ InLoop
    /\ ~IsBlankLine(commands[idx])
    /\ ~HasBase(commands[idx])
    /\ pcR' = "IndexError"
    /\ UNCHANGED <<commands, idx, filtered, probes, warnings, errors, shellCalls, notRun>>

\* Lines 71-74: `which` finds the base command: the line is kept
RunWhichFound ==
    /\ InLoop
    /\ ~IsBlankLine(commands[idx])
    /\ HasBase(commands[idx])
    /\ platform # "Windows"
    /\ probes' = Append(probes, [line |-> idx, base |-> base_cmd(commands[idx]), status |-> 0])
    /\ filtered' = AppendCommand(filtered, commands[idx])
    /\ idx' = idx + 1
    /\ UNCHANGED <<pcR, commands, warnings, errors, shellCalls, notRun>>

\* Lines 71-76, the warning followed by a return
RunWhichNotFound_Abort ==
    /\ InLoop
    /\ ~IsBlankLine(commands[idx])
    /\ HasBase(commands[idx])
    /\ platform # "Windows"
    /\ \E st \in WhichStatuses \ {0} :
          probes' = Append(probes, [line |-> idx, base |-> base_cmd(commands[idx]), status |-> st])
    /\ warnings' = Append(warnings, base_cmd(commands[idx]))
    /\ pcR' = "returned"
    /\ UNCHANGED <<idx, commands, filtered, errors, shellCalls, notRun>>

\* Lines 71-76: `which` does not find it: a warning, and the line is dropped
RunWhichNotFound ==
    /\ InLoop
    /\ ~IsBlankLine(commands[idx])
    /\ HasBase(commands[idx])
    /\ platform # "Windows"
    /\ \E st \in WhichStatuses \ {0} :
          probes' = Append(probes, [line |-> idx, base |-> base_cmd(commands[idx]), status |-> st])
    /\ warnings' = Append(warnings, base_cmd(commands[idx]))
    /\ idx' = idx + 1
    /\ UNCHANGED <<pcR, commands, filtered, errors, shellCalls, notRun>>

\* Lines 77-79: on Windows the line is kept unchecked
RunWindowsKeep ==
    /\ InLoop
    /\ ~IsBlankLine(commands[idx])
    /\ HasBase(commands[idx])
    /\ platform = "Windows"
    /\ filtered' = AppendCommand(filtered, commands[idx])
    /\ idx' = idx + 1
    /\ UNCHANGED <<pcR, commands, probes, warnings, errors, shellCalls, notRun>>

\* Lines 81-83: nothing to run
RunNoValid ==
    /\ pcR = "loop" /\ idx > Len(commands)
    /\ filtered = <<>>
    /\ errors' = Append(errors, "No valid commands to execute")
    /\ pcR' = "returned"
    /\ UNCHANGED <<commands, idx, filtered, probes, warnings, shellCalls, notRun>>

\* Lines 86-97 without the test of line 81
RunExecute_NoTest ==
    /\ pcR = "loop" /\ idx > Len(commands)
    /\ \E shellEnv \in ShellEnvValues, modulePaths \in 1..MaxModulePaths :
          shellCalls' = Append(shellCalls, FullCommand(platform, shellEnv, modulePaths, filtered))
    /\ pcR' = "returned"
    /\ UNCHANGED <<commands, idx, filtered, probes, warnings, errors, notRun>>

\* Lines 86-97: the kept lines are joined and handed to the shell
RunExecute ==
    /\ pcR = "loop" /\ idx > Len(commands)
    /\ filtered # <<>>
    /\ \E shellEnv \in ShellEnvValues, modulePaths \in 1..MaxModulePaths :
          shellCalls' = Append(shellCalls, FullCommand(platform, shellEnv, modulePaths, filtered))
    /\ pcR' = "returned"
    /\ UNCHANGED <<commands, idx, filtered, probes, warnings, errors, notRun>>

NextRun ==
    \/ RunSplit
    \/ RunSkipBlank
    \/ RunNoBase
    \/ RunWhichFound
    \/ RunWhichNotFound
    \/ RunWindowsKeep
    \/ RunNoValid
    \/ RunExecute

SpecRun == InitRun /\ [][NextRun]_vars

(* Claims about run_command *)

ProbesWith(ok) == SelectSeq(probes, LAMBDA p : (p.status = 0) = ok)

SolidLines == {i \in 1..Len(commands) : \E k \in 1..Len(commands[i]) : commands[i][k] \notin {" ", "\n"}}

\* The lines of the one shell call's script.
ScriptLines ==
    Split(shellCalls[1].script, IF shellCalls[1].flag = "/c" THEN " && " ELSE "; ")

\* C1: the shell is invoked at most once, only after every line has been
\* looked at and only when a filtered command has survived; when every
\* `which` probe returns non-zero no shell process is spawned, and a run that
\* returns has reported "No valid commands to execute".
C1_NoShellWithoutSurvivor ==
    /\ Len(shellCalls) <= 1
    /\ shellCalls # <<>> =>
          /\ filtered # <<>>
          /\ pcR = "returned" /\ idx > Len(commands)
          /\ errors = <<>>
          /\ platform # "Windows" => {probes[k].line : k \in 1..Len(probes)} = SolidLines
    /\ (platform # "Windows" /\ ProbesWith(TRUE) = <<>>) =>
          /\ shellCalls = <<>>
          /\ pcR = "returned" => errors = <<"No valid commands to execute">>

\* C1's case: two lines probed, neither resolves, the run has returned.
C1_Witness ==
    /\ pcR = "returned" /\ platform = "Linux"
    /\ Len(probes) >= 2 /\ ProbesWith(TRUE) = <<>>
    /\ shellCalls = <<>> /\ errors # <<>>

\* C4: when every base executable resolves, the joined command handed to the
\* shell holds the non-blank lines of the command text, each once, in their
\* order, and no blank line.
C4_AllLinesKept ==
    (shellCalls # <<>> /\ ProbesWith(FALSE) = <<>>) =>
        LET text == Split(CommandText(command), "\n")
            solid == SelectSeq(text, LAMBDA l : \E k \in 1..Len(l) : l[k] \notin {" ", "\n"})
        IN  /\ ScriptLines = solid
            /\ \A i \in 1..Len(ScriptLines) : ScriptLines[i] \in Range(text)
            /\ \A i \in 1..Len(ScriptLines) :
                  \E k \in 1..Len(ScriptLines[i]) : ScriptLines[i][k] \notin {" ", "\n"}

\* C4's case: two different lines with a blank line among them, both resolve.
C4_Witness ==
    /\ shellCalls # <<>> /\ platform = "Linux"
    /\ Len(probes) >= 2 /\ ProbesWith(FALSE) = <<>>
    /\ commands[probes[1].line] # commands[probes[2].line]
    /\ Len(commands) > Len(probes)

\* C8: off Windows, a line that does not resolve costs one warning and
\* nothing else: the kept lines are exactly the lines that resolved, in
\* order; and a run in which a line resolved invokes the shell once with
\* exactly those lines, every non-blank line having been probed.
C8_UnresolvableDoesNotAbort ==
    platform # "Windows" =>
        /\ filtered = [k \in 1..Len(ProbesWith(TRUE)) |-> commands[ProbesWith(TRUE)[k].line]]
        /\ warnings = [k \in 1..Len(ProbesWith(FALSE)) |-> ProbesWith(FALSE)[k].base]
        /\ \A a, b \in 1..Len(probes) : a < b => probes[a].line < probes[b].line
        /\ (pcR = "returned" /\ ProbesWith(TRUE) # <<>>) =>
              /\ Len(shellCalls) = 1
              /\ ScriptLines = filtered
              /\ {probes[k].line : k \in 1..Len(probes)} = SolidLines
              /\ Len(warnings) + Len(filtered) = Cardinality(SolidLines)

\* C8's case: a line that does not resolve comes before one that does.
C8_Witness ==
    /\ pcR = "returned" /\ platform = "Linux"
    /\ Len(probes) >= 2
    /\ probes[1].status # 0 /\ probes[2].status = 0
    /\ Len(shellCalls) = 1 /\ Len(warnings) = 1

\* C9: every non-blank line has a base command, so run_command never fails
\* on a line: it ends in the no-op return or in one shell invocation.
C9_EveryLineHasBase ==
    /\ pcR # "IndexError"
    /\ pcR \in {"returned", "IndexError"} => \A i \in 1..Len(commands) :
          ~IsBlankLine(commands[i]) => HasBase(commands[i])

--------------------------------------------------------------------------
(* get_edited_prompt *)

NoFile == [exists |-> FALSE, data |-> <<>>]

FileOf(d) == [exists |-> TRUE, data |-> d]

TmpNames == 1..MaxTmpNames

\* A byte sequence that is not UTF-8
BadByte == "<0xff>"

PromptAlphabet == {"p", Newline, BadByte}

EditorEnvValues == {EnvUnset, EnvSet(<<"nano">>)}

InitEdit ==
    /\ fs \in [TmpNames -> {NoFile, FileOf(<<>>), FileOf(<<"p">>)}]
    /\ \E n \in TmpNames : ~fs[n].exists
    /\ fs0 = fs
    /\ pcE = "start" /\ file_path = 0 /\ editorRun = <<>> /\ output = <<>> /\ stepsE = <<>>
    /\ command = <<>> /\ platform = "Linux"
    /\ SanIdle /\ RunIdle /\ OptIdle

notEdit == <<command, platform, sanVars, runVars, optVars>>

\* Lines 29-31: NamedTemporaryFile(delete=False) makes an empty file under a
\* name not in use
EditCreate ==
    /\ pcE = "start"
    /\ \E n \in TmpNames :
          /\ ~fs[n].exists
          /\ fs' = [fs EXCEPT ![n] = FileOf(<<>>)]
          /\ file_path' = n
    /\ pcE' = "created"
    /\ stepsE' = Append(stepsE, "create")
    /\ UNCHANGED <<fs0, editorRun, output, notEdit>>

\* Lines 32-34: os.system runs the editor and waits; the user leaves some
\* content in the file
EditRunEditor ==
    /\ pcE = "created"
    /\ \E e \in EditorEnvValues, d \in SeqsUpTo(PromptAlphabet, MaxPromptLen) :
          /\ editorRun' = Append(editorRun,
                [editor |-> EnvGet(e, <<"vim">>), path |-> file_path, wrote |-> d])
          /\ fs' = [fs EXCEPT ![file_path] = FileOf(d)]
    /\ pcE' = "edited"
    /\ stepsE' = Append(stepsE, "edit")
    /\ UNCHANGED <<fs0, file_path, output, notEdit>>

\* Lines 36-37: the file is read as UTF-8
EditRead ==
    /\ pcE = "edited"
    /\ ~Contains(fs[file_path].data, BadByte)
    /\ output' = fs[file_path].data
    /\ pcE' = "read"
    /\ stepsE' = Append(stepsE, "read")
    /\ UNCHANGED <<fs, fs0, file_path, editorRun, notEdit>>

\* Line 37: read() raises on bytes that are not UTF-8
EditReadFail ==
    /\ pcE = "edited"
    /\ Contains(fs[file_path].data, BadByte)
    /\ pcE' = "UnicodeDecodeError"
    /\ stepsE' = Append(stepsE, "read")
    /\ UNCHANGED <<fs, fs0, file_path, editorRun, output, notEdit>>

\* Line 38 left out: the file stays
EditRemove_Skip ==
    /\ pcE = "read"
    /\ pcE' = "removed"
    /\ stepsE' = Append(stepsE, "delete")
    /\ UNCHANGED <<fs, fs0, file_path, editorRun, output, notEdit>>

\* Line 38: os.remove(file_path)
EditRemove ==
    /\ pcE = "read"
    /\ fs' = [fs EXCEPT ![file_path] = NoFile]
    /\ pcE' = "removed"
    /\ stepsE' = Append(stepsE, "delete")
    /\ UNCHANGED <<fs0, file_path, editorRun, output, notEdit>>

\* Lines 39-40: empty content raises BadParameter
EditRaiseEmpty ==
    /\ pcE = "removed"
    /\ output = <<>>
    /\ pcE' = "BadParameter"
    /\ stepsE' = Append(stepsE, "validate")
    /\ UNCHANGED <<fs, fs0, file_path, editorRun, output, notEdit>>

\* Line 41: return output
EditReturn ==
    /\ pcE = "removed"
    /\ output # <<>>
    /\ pcE' = "returned"
    /\ stepsE' = Append(stepsE, "validate")
    /\ UNCHANGED <<fs, fs0, file_path, editorRun, output, notEdit>>

NextEdit ==
    \/ EditCreate
    \/ EditRunEditor
    \/ EditRead
    \/ EditReadFail
    \/ EditRemove
    \/ EditRaiseEmpty
    \/ EditReturn

SpecEdit == InitEdit /\ [][NextEdit]_vars

(* Claims about get_edited_prompt *)

StepOrder == <<"create", "edit", "read", "delete", "validate">>

\* C6: the steps come in the order create, edit, read, delete, validate; the
\* temp file is gone before the content is validated, so neither the return
\* nor the empty-content error leaves it behind (and no other file is
\* touched); a value is returned only when the content read is not empty.
C6_StrictOrder ==
    /\ \E n \in 0..Len(StepOrder) : stepsE = SubSeq(StepOrder, 1, n)
    /\ Len(editorRun) = (IF Len(stepsE) >= 2 THEN 1 ELSE 0)
    /\ pcE \in {"removed", "returned", "BadParameter"} =>
          /\ ~fs[file_path].exists
          /\ \A n \in DOMAIN fs : n # file_path => fs[n] = fs0[n]
          /\ ~fs0[file_path].exists
    /\ pcE \in {"returned", "BadParameter"} => stepsE = StepOrder
    /\ pcE = "BadParameter" => output = <<>>
    /\ pcE = "returned" => (output # <<>> /\ output = editorRun[1].wrote)

\* C6's case: the editor left the file empty, the error is raised, the file
\* is gone and another file of the directory is still there.
C6_Witness ==
    /\ pcE = "BadParameter"
    /\ ~fs[file_path].exists
    /\ \E n \in DOMAIN fs : fs[n].exists

--------------------------------------------------------------------------
(* option_callback, install_shell_integration, get_sgpt_version *)

\* sgpt.integration: the two blocks, each one chunk
zsh_integration == <<"zsh_integration">>

bash_integration == <<"bash_integration">>

Funcs == {"install_shell_integration", "get_sgpt_version"}

FlagValues == {"", "true"}

RcContents == {<<>>, <<"user">>}

InitOpt ==
    /\ zshrc0 \in RcContents /\ bashrc0 \in RcContents
    /\ zshrc = zshrc0 /\ bashrc = bashrc0
    /\ zshrcPre = zshrc0 /\ bashrcPre = bashrc0
    /\ pcW = "idle" /\ func = "" /\ value = "" /\ envSHELL = EnvUnset
    /\ echoed = <<>> /\ traceW = <<>>
    /\ invocations = 0 /\ zshDone = 0 /\ bashDone = 0
    /\ command = <<>> /\ platform = "Linux"
    /\ SanIdle /\ RunIdle /\ EditIdle

notOpt == <<command, platform, sanVars, runVars, editVars>>

\* A process can start: none is running, and the bound allows one more
CanStart ==
    /\ pcW \in {"idle", "returned", "Exit", "UsageError"}
    /\ invocations < MaxInvocations

StartProcess(f, v, e) ==
    /\ func' = f /\ value' = v /\ envSHELL' = e
    /\ zshrcPre' = zshrc /\ bashrcPre' = bashrc
    /\ echoed' = <<>>
    /\ invocations' = invocations + 1
    /\ UNCHANGED <<zshrc, bashrc, zshrc0, bashrc0, zshDone, bashDone, notOpt>>

\* Lines 102-103: if not value: return
WrapperSkip ==
    /\ CanStart
    /\ \E f \in Funcs, v \in FlagValues, e \in ShellEnvValues :
          /\ v = ""
          /\ StartProcess(f, v, e)
    /\ traceW' = <<>>
    /\ pcW' = "returned"

\* Line 104 without the test of line 102
WrapperCall_NoValueTest ==
    /\ CanStart
    /\ \E f \in Funcs, v \in FlagValues, e \in ShellEnvValues :
          StartProcess(f, v, e)
    /\ traceW' = <<"call">>
    /\ pcW' = "in_func"

\* Line 104: func(cls, value)
WrapperCall ==
    /\ CanStart
    /\ \E f \in Funcs, v \in FlagValues, e \in ShellEnvValues :
          /\ v # ""
          /\ StartProcess(f, v, e)
    /\ traceW' = <<"call">>
    /\ pcW' = "in_func"

InInstall == pcW = "in_func" /\ func = "install_shell_integration"

\* Line 119: os.environ.get("SHELL", "")
ShellName == EnvGet(envSHELL, <<>>)

\* Lines 120-123 with a check for a block already there
InstallZsh_Idempotent ==
    /\ InInstall
    /\ Contains(ShellName, "zsh")
    /\ echoed' = echoed \o <<"Installing ZSH integration...",
                             "Done! Restart your shell to apply changes.">>
    /\ zshrc' = IF Contains(zshrc, zsh_integration[1]) THEN zshrc ELSE zshrc \o zsh_integration
    /\ traceW' = Append(traceW, "return")
    /\ pcW' = "func_returned"
    /\ UNCHANGED <<func, value, envSHELL, bashrc, zshrc0, bashrc0, zshrcPre, bashrcPre,
                   invocations, zshDone, bashDone, notOpt>>

\* Lines 120-123 and 131: "zsh" in shell: the block is appended to ~/.zshrc
InstallZsh ==
    /\ InInstall
    /\ Contains(ShellName, "zsh")
    /\ echoed' = echoed \o <<"Installing ZSH integration...",
                             "Done! Restart your shell to apply changes.">>
    /\ zshrc' = zshrc \o zsh_integration
    /\ traceW' = Append(traceW, "return")
    /\ pcW' = "func_returned"
    /\ UNCHANGED <<func, value, envSHELL, bashrc, zshrc0, bashrc0, zshrcPre, bashrcPre,
                   invocations, zshDone, bashDone, notOpt>>

\* Lines 124-127 with else in place of elif "bash" in shell
InstallBash_Else ==
    /\ InInstall
    /\ ~Contains(ShellName, "zsh")
    /\ echoed' = echoed \o <<"Installing Bash integration...",
                             "Done! Restart your shell to apply changes.">>
    /\ bashrc' = bashrc \o bash_integration
    /\ traceW' = Append(traceW, "return")
    /\ pcW' = "func_returned"
    /\ UNCHANGED <<func, value, envSHELL, zshrc, zshrc0, bashrc0, zshrcPre, bashrcPre,
                   invocations, zshDone, bashDone, notOpt>>

\* Lines 124-127 and 131: "bash" in shell: the block is appended to ~/.bashrc
InstallBash ==
    /\ InInstall
    /\ ~Contains(ShellName, "zsh")
    /\ Contains(ShellName, "bash")
    /\ echoed' = echoed \o <<"Installing Bash integration...",
                             "Done! Restart your shell to apply changes.">>
    /\ bashrc' = bashrc \o bash_integration
    /\ traceW' = Append(traceW, "return")
    /\ pcW' = "func_returned"
    /\ UNCHANGED <<func, value, envSHELL, zshrc, zshrc0, bashrc0, zshrcPre, bashrcPre,
                   invocations, zshDone, bashDone, notOpt>>

\* Lines 128-129: raise UsageError
InstallUnsupported ==
    /\ InInstall
    /\ ~Contains(ShellName, "zsh")
    /\ ~Contains(ShellName, "bash")
    /\ traceW' = Append(traceW, "raise")
    /\ pcW' = "UsageError"
    /\ UNCHANGED <<func, value, envSHELL, zshrc, bashrc, zshrc0, bashrc0, zshrcPre,
                   bashrcPre, echoed, invocations, zshDone, bashDone, notOpt>>

\* Lines 135-139: get_sgpt_version echoes the version
VersionEcho ==
    /\ pcW = "in_func" /\ func = "get_sgpt_version"
    /\ echoed' = Append(echoed, "ShellGPT __version__")
    /\ traceW' = Append(traceW, "return")
    /\ pcW' = "func_returned"
    /\ UNCHANGED <<func, value, envSHELL, zshrc, bashrc, zshrc0, bashrc0, zshrcPre,
                   bashrcPre, invocations, zshDone, bashDone, notOpt>>

\* Line 105: raise typer.Exit().  The counts record what the process that
\* exits installed.
WrapperExit ==
    /\ pcW = "func_returned"
    /\ traceW' = Append(traceW, "exit")
    /\ pcW' = "Exit"
    /\ zshDone' = IF func = "install_shell_integration" /\ Contains(ShellName, "zsh")
                  THEN zshDone + 1 ELSE zshDone
    /\ bashDone' = IF func = "install_shell_integration" /\ ~Contains(ShellName, "zsh")
                   THEN bashDone + 1 ELSE bashDone
    /\ UNCHANGED <<func, value, envSHELL, zshrc, bashrc, zshrc0, bashrc0, zshrcPre,
                   bashrcPre, echoed, invocations, notOpt>>

NextOpt ==
    \/ WrapperSkip
    \/ WrapperCall
    \/ InstallZsh
    \/ InstallBash
    \/ InstallUnsupported
    \/ VersionEcho
    \/ WrapperExit

SpecOpt == InitOpt /\ [][NextOpt]_vars

(* Claims about the wrapper and the installer *)

\* $SHELL names neither zsh nor bash: it is unset, or no part of it is "zsh" or "bash"
Unsupported(e) == ~e.set \/ \A k \in 1..Len(e.val) : e.val[k] \notin {"zsh", "bash"}

Copies(n, block) == [k \in 1..n |-> block]

\* C5: install_shell_integration, called with a non-empty flag value while
\* $SHELL names neither zsh nor bash (or is unset), ends in a usage error and
\* leaves both rc files as they were when the call began.
C5_UnsupportedWritesNothing ==
    (invocations > 0 /\ func = "install_shell_integration" /\ value # "" /\ Unsupported(envSHELL)) =>
        /\ pcW \in {"in_func", "UsageError"}
        /\ zshrc = zshrcPre /\ bashrc = bashrcPre
        /\ echoed = <<>>

\* C5's case: $SHELL is fish, the usage error has been raised, the rc files hold text.
C5_Witness ==
    /\ pcW = "UsageError"
    /\ envSHELL.set /\ Contains(envSHELL.val, "fish")
    /\ zshrc # <<>> /\ bashrc # <<>>

\* C7: with an empty flag value the callback is not run and no exit is
\* requested; with a non-empty value the callback runs exactly once, and the
\* exit is requested only after the callback has returned.
C7_EagerOption ==
    /\ (invocations > 0 /\ value = "") =>
          /\ pcW = "returned" /\ traceW = <<>> /\ echoed = <<>>
          /\ zshrc = zshrcPre /\ bashrc = bashrcPre
    /\ (invocations > 0 /\ value # "") =>
          /\ pcW # "returned"
          /\ traceW \in {<<"call">>, <<"call", "return">>, <<"call", "raise">>,
                         <<"call", "return", "exit">>}
          /\ pcW = "Exit" <=> traceW = <<"call", "return", "exit">>
          /\ pcW = "UsageError" <=> traceW = <<"call", "raise">>
          /\ func = "get_sgpt_version" => pcW # "UsageError"
          /\ (func = "get_sgpt_version" /\ pcW = "Exit") => echoed = <<"ShellGPT __version__">>

\* C7's case: the version flag is set, the callback has echoed, the exit is requested.
C7_Witness ==
    /\ pcW = "Exit" /\ func = "get_sgpt_version" /\ value # ""
    /\ echoed # <<>>

\* C10: every invocation that installs and exits appends one block to the
\* rc file of its shell and changes nothing else: between invocations each rc
\* file is its first content followed by one block per such invocation.
C10_AppendOnly ==
    /\ pcW \in {"idle", "returned", "Exit", "UsageError"} =>
          /\ zshrc = zshrc0 \o Copies(zshDone, "zsh_integration")
          /\ bashrc = bashrc0 \o Copies(bashDone, "bash_integration")
    /\ Len(zshrc) >= Len(zshrcPre) /\ SubSeq(zshrc, 1, Len(zshrcPre)) = zshrcPre
    /\ Len(bashrc) >= Len(bashrcPre) /\ SubSeq(bashrc, 1, Len(bashrcPre)) = bashrcPre
    /\ Len(zshrc) + Len(bashrc) <= Len(zshrcPre) + Len(bashrcPre) + 1
    /\ pcW \in {"func_returned", "Exit"} /\ func = "install_shell_integration" =>
          Len(zshrc) + Len(bashrc) = Len(zshrcPre) + Len(bashrcPre) + 1

\* C10's case: two installs for zsh on an rc file that held text: two blocks after it.
C10_Witness ==
    /\ pcW = "Exit" /\ zshDone = 2
    /\ zshrc0 # <<>>
    /\ zshrc = zshrc0 \o <<"zsh_integration", "zsh_integration">>
    /\ bashrc = bashrc0

==========================================================================
